---- MODULE Spec2Model ----
(***************************************************************************)
(* A model of src/Router.py: a link-state router.  Every router process    *)
(* runs three threads: broadcast_link_state_periodically (originate),      *)
(* receive_link_state / process_received_message (receive and relay) and   *)
(* compute_dijkstra (the path engine).  The routers of one network talk    *)
(* over UDP datagrams, which may be lost, duplicated and reordered.        *)
(*                                                                         *)
(* The sections guarded by self.lock are modelled as single actions.       *)
(* Python lists are indexed from 0: dist, prev, visited and the rows of    *)
(* the store are functions over 0 .. total_nodes-1; one cost row is a      *)
(* sequence, so row[v + 1] is Python's row[v] and an index past Len(row)   *)
(* is Python's IndexError.                                                 *)
(***************************************************************************)
EXTENDS Integers, Sequences, FiniteSets, TLC

VARIABLES
    total_nodes,           \* self.total_nodes, the same in every router's configuration
    neighbors,             \* neighbors[r][j]: the configured cost of r's link to j
    originators,           \* the routers whose broadcast thread is followed
    link_state,            \* link_state[r][i]: the row router r stores for row index i
    received_link_states,  \* received_link_states[r]: the known set of router r
    forwarding_table,      \* forwarding_table[r]: destination -> next hop or None
    dist,                  \* dist[r]: the distances of r's last path computation
    prev,                  \* prev[r]: the predecessors of r's last path computation
    recv_alive,            \* recv_alive[r]: r's receive thread has not died of an exception
    dijk_alive,            \* dijk_alive[r]: r's path-engine thread has not died
    net,                   \* the datagrams in flight
    sent,                  \* the datagrams sent by the last step
    last,                  \* the last step: what was done, and by which router
    tracing,               \* whether the history variables sent and last are recorded
    lost,                  \* the number of datagrams the network has dropped
    injected,              \* the number of datagrams that came from outside the routers
    pc,                    \* pc[r][t]: where thread t of router r stands (LockSpec)
    lock,                  \* lock[r]: the thread that holds self.lock of router r
    message                \* message[r]: the datagram r's receive thread is processing

vars == <<total_nodes, neighbors, originators, link_state, received_link_states,
          forwarding_table, dist, prev, recv_alive, dijk_alive, net, sent, last,
          tracing, lost, injected, pc, lock, message>>

config == <<total_nodes, neighbors, originators, tracing>>
store == <<link_state, received_link_states>>
engine == <<forwarding_table, dist, prev>>
threads == <<recv_alive, dijk_alive>>
budget == <<lost, injected>>
control == <<pc, lock, message>>

----------------------------------------------------------------------------
(* Constants of the program.                                               *)

INFINITY == 999

TTL_LIMIT == 10

\* Python's None, in prev and in the forwarding table (node ids are >= 0).
None == -1

\* The sender of a datagram that no router of the network sent.
Outside == -2

----------------------------------------------------------------------------
(* Bounds of the model.                                                    *)

\* The datagrams the network may drop in one run (LossSpec).
MaxLost == 1

\* The datagrams that may arrive from outside the routers in one run (OpenSpec).
MaxInjected == 1

\* The number of routers whose stores hold any cost matrix (MatrixSpec).
MatrixNodes == 3

----------------------------------------------------------------------------
(* Configurations: what load_config reads for every router of a network.   *)

Routers == 0 .. total_nodes - 1

\* n routers in a line 0 - 1 - ... - (n-1), every link of cost c.
Line(n, c) ==
    [total_nodes |-> n,
     neighbors |-> [r \in 0 .. n - 1 |-> [j \in {r - 1, r + 1} \cap (0 .. n - 1) |-> c]]]

\* The 3-node line of the spec's scenario: 0 - 1 cost 5, 1 - 2 cost 5.
Line3 == Line(3, 5)

\* Two routers and one link.
Pair2 == Line(2, 1)

\* n routers in a ring, every link of cost c.
Ring(n, c) ==
    [total_nodes |-> n,
     neighbors |-> [r \in 0 .. n - 1 |-> [j \in {(r + n - 1) % n, (r + 1) % n} |-> c]]]

\* Four routers in a ring.
Ring4 == Ring(4, 1)

\* Routers 0 - 1 - 2 in a line, router 3 with no link at all.
Isolated4 ==
    [total_nodes |-> 4,
     neighbors |-> (0 :> (1 :> 1) @@ 1 :> (0 :> 1 @@ 2 :> 1) @@ 2 :> (1 :> 1)
                    @@ 3 :> <<>>)]

\* initialize_link_state: the row a router builds for itself.
OwnRow(n, nbrs, r) ==
    [v \in 1 .. n |->
        IF (v - 1) \in DOMAIN nbrs THEN nbrs[v - 1]
        ELSE IF v - 1 = r THEN 0 ELSE INFINITY]

\* initialize_link_state: the store of router r after construction.
InitialStore(n, nbrs, r) ==
    [i \in 0 .. n - 1 |->
        IF i = r THEN OwnRow(n, nbrs, r) ELSE [v \in 1 .. n |-> INFINITY]]

\* The ground-truth cost matrix of the network: every router's own row.
Truth == [o \in Routers |-> OwnRow(total_nodes, neighbors[o], o)]

\* The state after every router's constructor has run; orig are the routers
\* whose broadcast thread is followed, trace says whether sent and last are kept.
Setup(c, orig, trace) ==
    /\ total_nodes = c.total_nodes
    /\ neighbors = c.neighbors
    /\ originators = orig
    /\ tracing = trace
    /\ link_state = [r \in 0 .. c.total_nodes - 1 |->
                        InitialStore(c.total_nodes, c.neighbors[r], r)]
    /\ received_link_states = [r \in 0 .. c.total_nodes - 1 |-> {r}]
    /\ forwarding_table = [r \in 0 .. c.total_nodes - 1 |-> <<>>]
    /\ dist = [r \in 0 .. c.total_nodes - 1 |-> <<>>]
    /\ prev = [r \in 0 .. c.total_nodes - 1 |-> <<>>]
    /\ recv_alive = [r \in 0 .. c.total_nodes - 1 |-> TRUE]
    /\ dijk_alive = [r \in 0 .. c.total_nodes - 1 |-> TRUE]
    /\ net = {}
    /\ sent = {}
    /\ last = [op |-> "start", r |-> None]
    /\ lost = 0
    /\ injected = 0
    /\ pc = [r \in 0 .. c.total_nodes - 1 |->
                [broadcast |-> "idle", receive |-> "recvfrom", dijkstra |-> "sleep"]]
    /\ lock = [r \in 0 .. c.total_nodes - 1 |-> "free"]
    /\ message = [r \in 0 .. c.total_nodes - 1 |-> <<>>]

----------------------------------------------------------------------------
(* Datagrams.  to, router_id, link_state and ttl are what the program      *)
(* sends; from (the sending router), hops (the relays behind this copy)    *)
(* and ttl0 (the ttl its advertisement was originated with) only record    *)
(* where a copy came from.  A datagram from outside may lack fields.       *)

Datagram(to, id, row, ttl, from, hops, ttl0) ==
    [to |-> to, router_id |-> id, link_state |-> row, ttl |-> ttl,
     from |-> from, hops |-> hops, ttl0 |-> ttl0]

\* message.get('ttl', 0)
TtlOf(m) == IF "ttl" \in DOMAIN m THEN m.ttl ELSE 0

\* json.loads succeeds and message['router_id'], message['link_state'] exist.
WellFormed(m) == {"router_id", "link_state"} \subseteq DOMAIN m

\* self.link_state[sender_id] raises IndexError outside -n .. n-1.
InRange(id) == id >= 0 - total_nodes /\ id < total_nodes

\* Python's list index: a negative index counts from the end.
Index(id) == IF id < 0 THEN id + total_nodes ELSE id

----------------------------------------------------------------------------
(* The history variables: what the step did and the datagrams it sent.     *)

Record(op, r, out) ==
    /\ last' = IF tracing THEN [op |-> op, r |-> r] ELSE last
    /\ sent' = IF tracing THEN out ELSE sent

----------------------------------------------------------------------------
(* Originate: one round of broadcast_link_state_periodically.              *)

OriginatedTo(r) ==
    {Datagram(j, r, link_state[r][r], TTL_LIMIT, r, 0, TTL_LIMIT) : j \in DOMAIN neighbors[r]}

Originate(r) ==
    /\ r \in originators
    /\ Record("originate", r, OriginatedTo(r))
    /\ net' = net \cup OriginatedTo(r)
    /\ UNCHANGED <<config, store, engine, threads, budget, control>>

----------------------------------------------------------------------------
(* Receive and relay: receive_link_state and process_received_message.     *)

\* A faulty variant of Live: the ttl test of line 85 is missing.
LiveAlways(m) == TRUE

\* line 85: the message is processed at all.
Live(m) == TtlOf(m) > 0

\* lines 89-90: the known set after the message.
KnownAfter(r, m) ==
    IF WellFormed(m) /\ Live(m)
    THEN received_link_states[r] \cup {m.router_id}
    ELSE received_link_states[r]

\* line 92 raises IndexError, or lines 77, 81, 82 raise on a malformed datagram.
Raises(r, m) == ~WellFormed(m) \/ (Live(m) /\ ~InRange(m.router_id))

\* A faulty variant of Differs: the comparison of line 92 is missing.
DiffersAlways(r, m) == WellFormed(m) /\ Live(m) /\ InRange(m.router_id)

\* line 92: the row differs from the stored one.
Differs(r, m) ==
    /\ WellFormed(m) /\ Live(m) /\ InRange(m.router_id)
    /\ link_state[r][Index(m.router_id)] # m.link_state

\* A faulty variant of RowsAfter: the assignment of line 93 is missing.
RowsAfterNotStored(r, m) == link_state[r]

\* line 93: the rows of r's store after the message.
RowsAfter(r, m) ==
    IF Differs(r, m)
    THEN [link_state[r] EXCEPT ![Index(m.router_id)] = m.link_state]
    ELSE link_state[r]

\* Faulty variants of MayRelay: the test of line 95 is missing, or stops the
\* relay one hop too early.
MayRelayAlways(m) == TRUE

MayRelayTwoLeft(m) == TtlOf(m) - 1 > 1

\* line 95: the decremented ttl still allows a relay.
MayRelay(m) == TtlOf(m) - 1 > 0

\* A faulty variant of RelayTargets: the test of line 103 is missing.
RelayTargetsAll(r, m) == DOMAIN neighbors[r]

\* line 103: the neighbours a relayed copy goes to.
RelayTargets(r, m) == {j \in DOMAIN neighbors[r] : j # m.router_id}

\* A faulty variant of Copies: the ttl of line 99 is not decremented.
CopiesSameTtl(r, m) ==
    {Datagram(j, m.router_id, m.link_state, TtlOf(m), r, m.hops + 1, m.ttl0) :
        j \in RelayTargets(r, m)}

\* lines 96-105: the copies of the message that r sends when it relays.
Copies(r, m) ==
    {Datagram(j, m.router_id, m.link_state, TtlOf(m) - 1, r, m.hops + 1, m.ttl0) :
        j \in RelayTargets(r, m)}

\* lines 94-105: the datagrams r sends for the message.
Relayed(r, m) == IF Differs(r, m) /\ MayRelay(m) THEN Copies(r, m) ELSE {}

\* What the step is called in `last`.
ReceiveOp(r, m) ==
    IF Raises(r, m) THEN "receive_raise"
    ELSE IF ~Live(m) THEN "receive_ttl"
    ELSE IF Differs(r, m) THEN "receive_new"
    ELSE "receive_same"

\* The receive loop takes datagram m; keep: the network delivers a duplicate
\* and the datagram stays in flight.
Receive(r, m, keep) ==
    /\ recv_alive[r]
    /\ m \in net /\ m.to = r
    /\ Record(ReceiveOp(r, m), r, Relayed(r, m))
    /\ received_link_states' = [received_link_states EXCEPT ![r] = KnownAfter(r, m)]
    /\ link_state' = [link_state EXCEPT ![r] = RowsAfter(r, m)]
    /\ recv_alive' = [recv_alive EXCEPT ![r] = ~Raises(r, m)]
    /\ net' = (IF keep THEN net ELSE net \ {m}) \cup Relayed(r, m)
    /\ UNCHANGED <<config, engine, dijk_alive, budget, control>>

----------------------------------------------------------------------------
(* The path engine: one tick of compute_dijkstra.                          *)

\* A faulty variant of Deferred: the gate of line 111 opens one row too early.
DeferredOffByOne(r) == Cardinality(received_link_states[r]) < total_nodes - 1

\* line 111: the completeness gate.
Deferred(r) == Cardinality(received_link_states[r]) < total_nodes

\* A faulty variant of SelectMin: the comparison of line 126 is not strict.
RECURSIVE SelectMinLast(_, _, _, _, _, _)
SelectMinLast(n, d, visited, v, min_distance, u) ==
    IF v = n THEN u
    ELSE IF ~visited[v] /\ d[v] <= min_distance
         THEN SelectMinLast(n, d, visited, v + 1, d[v], v)
         ELSE SelectMinLast(n, d, visited, v + 1, min_distance, u)

\* lines 123-128: the unvisited node of least distance below INFINITY, scanning
\* the nodes in ascending order with a strict comparison.
RECURSIVE SelectMin(_, _, _, _, _, _)
SelectMin(n, d, visited, v, min_distance, u) ==
    IF v = n THEN u
    ELSE IF ~visited[v] /\ d[v] < min_distance
         THEN SelectMin(n, d, visited, v + 1, d[v], v)
         ELSE SelectMin(n, d, visited, v + 1, min_distance, u)

\* A faulty variant of Relax: line 136 forgets the distance of u, so alt is the
\* cost of the edge alone.
RECURSIVE RelaxEdgeOnly(_, _, _, _, _)
RelaxEdgeOnly(rows, n, u, v, state) ==
    CHOOSE result \in
        {IF v = n \/ ~st.ok THEN st
         ELSE IF v + 1 > Len(rows[u]) THEN [st EXCEPT !.ok = FALSE]
         ELSE IF /\ rows[u][v + 1] < INFINITY
                 /\ ~st.visited[v]
                 /\ rows[u][v + 1] < st.dist[v]
              THEN RelaxEdgeOnly(rows, n, u, v + 1,
                                 [st EXCEPT !.dist[v] = rows[u][v + 1],
                                            !.prev[v] = u])
              ELSE RelaxEdgeOnly(rows, n, u, v + 1, st) :
            st \in {state}} : TRUE

\* lines 134-139: relax the edges out of u from node v on; ok turns FALSE on an
\* IndexError.  (st ranges over a one-element set so that the state of the
\* loop is a value, computed once, and not an expression computed at each use.)
RECURSIVE Relax(_, _, _, _, _)
Relax(rows, n, u, v, state) ==
    CHOOSE result \in
        {IF v = n \/ ~st.ok THEN st
         ELSE IF v + 1 > Len(rows[u]) THEN [st EXCEPT !.ok = FALSE]
         ELSE IF /\ rows[u][v + 1] < INFINITY
                 /\ ~st.visited[v]
                 /\ st.dist[u] + rows[u][v + 1] < st.dist[v]
              THEN Relax(rows, n, u, v + 1,
                         [st EXCEPT !.dist[v] = st.dist[u] + rows[u][v + 1],
                                    !.prev[v] = u])
              ELSE Relax(rows, n, u, v + 1, st) :
            st \in {state}} : TRUE

\* lines 121-139: the rounds of the main loop from round i on.
RECURSIVE DijkstraLoop(_, _, _, _)
DijkstraLoop(rows, n, i, state) ==
    CHOOSE result \in
        {IF i = n \/ ~st.ok \/ u = None THEN st
         ELSE DijkstraLoop(rows, n, i + 1,
                           Relax(rows, n, u, 0, [st EXCEPT !.visited[u] = TRUE])) :
            st \in {state},
            u \in {SelectMin(n, state.dist, state.visited, 0, INFINITY, None)}} : TRUE

\* A faulty variant of Dijkstra: the assignment of line 119 is missing.
DijkstraNoSource(rows, n, self) ==
    DijkstraLoop(rows, n, 0,
        [dist |-> [v \in 0 .. n - 1 |-> INFINITY],
         prev |-> [v \in 0 .. n - 1 |-> None],
         visited |-> [v \in 0 .. n - 1 |-> FALSE],
         ok |-> TRUE])

\* lines 116-139: Dijkstra from router self over the rows of its store.
Dijkstra(rows, n, self) ==
    DijkstraLoop(rows, n, 0,
        [dist |-> [v \in 0 .. n - 1 |-> IF v = self THEN 0 ELSE INFINITY],
         prev |-> [v \in 0 .. n - 1 |-> None],
         visited |-> [v \in 0 .. n - 1 |-> FALSE],
         ok |-> TRUE])

\* A faulty variant of Walk: the loop of line 148 is never entered.
WalkStay(p, self, next_hop) == next_hop

\* lines 147-149: walk the predecessors back from next_hop.
RECURSIVE Walk(_, _, _)
Walk(p, self, next_hop) ==
    IF p[next_hop] # None /\ p[next_hop] # self
    THEN Walk(p, self, p[next_hop])
    ELSE next_hop

\* lines 142-152: the forwarding table built from the predecessors.
BuildTable(p, n, self) ==
    [dest \in (0 .. n - 1) \ {self} |->
        LET next_hop == Walk(p, self, dest)
        IN  IF p[next_hop] = None THEN None ELSE next_hop]

\* lines 110-152: what one tick of r's path engine does.  It is deferred (line
\* 111) and everything stays as it was; or it runs and leaves new distances,
\* predecessors and a new forwarding table; or it dies of an IndexError before
\* it has assigned the table.
TickOutcome(r) ==
    IF Deferred(r)
    THEN [op |-> "tick_defer", dist |-> dist[r], prev |-> prev[r],
          forwarding_table |-> forwarding_table[r]]
    ELSE CHOOSE outcome \in
            {IF run.ok
             THEN [op |-> "tick_run", dist |-> run.dist, prev |-> run.prev,
                   forwarding_table |-> BuildTable(run.prev, total_nodes, r)]
             ELSE [op |-> "tick_raise", dist |-> dist[r], prev |-> prev[r],
                   forwarding_table |-> forwarding_table[r]] :
                run \in {Dijkstra(link_state[r], total_nodes, r)}} : TRUE

\* One tick of r's path engine.
Tick(r) ==
    /\ dijk_alive[r]
    /\ \E outcome \in {TickOutcome(r)} :
        /\ Record(outcome.op, r, {})
        /\ dist' = [dist EXCEPT ![r] = outcome.dist]
        /\ prev' = [prev EXCEPT ![r] = outcome.prev]
        /\ forwarding_table' = [forwarding_table EXCEPT ![r] = outcome.forwarding_table]
        /\ dijk_alive' = [dijk_alive EXCEPT ![r] = (outcome.op # "tick_raise")]
    /\ UNCHANGED <<config, store, recv_alive, net, budget, control>>

----------------------------------------------------------------------------
(* The network drops a datagram.                                           *)

Lose(m) ==
    /\ m \in net
    /\ Record("lose", m.to, {})
    /\ net' = net \ {m}
    /\ UNCHANGED <<config, store, engine, threads, budget, control>>

\* The same, in a run in which the network drops at most MaxLost datagrams.
LoseCounted(m) ==
    /\ lost < MaxLost
    /\ m \in net
    /\ Record("lose", m.to, {})
    /\ net' = net \ {m}
    /\ lost' = lost + 1
    /\ UNCHANGED <<config, store, engine, threads, injected, control>>

----------------------------------------------------------------------------
(* Datagrams from outside.  The socket of line 74 takes any datagram sent to *)
(* its port, and lines 76-93 check nothing but the ttl.                      *)

\* A row of len entries that no router of the network has built.
ForeignRow(len) == [v \in 1 .. len |-> 7]

\* Advertisements for router r, about another router o, whose ttl is used up:
\* ttl 0, a negative ttl, no ttl field.
Expired(r) ==
    UNION {{Datagram(r, o, ForeignRow(total_nodes), 0, Outside, 0, 0),
            Datagram(r, o, ForeignRow(total_nodes), 0 - 1, Outside, 0, 0 - 1),
            [to |-> r, router_id |-> o, link_state |-> ForeignRow(total_nodes),
             from |-> Outside, hops |-> 0, ttl0 |-> 0]} : o \in Routers \ {r}}

\* Advertisements for router r, about another router o, whose row is one entry
\* short or one entry long.
WrongLength(r) ==
    {Datagram(r, o, ForeignRow(len), 2, Outside, 0, 2) :
        o \in Routers \ {r}, len \in {total_nodes - 1, total_nodes + 1}}

\* Advertisements for router r whose origin id is no router of the network.
OutOfRange(r) ==
    {Datagram(r, id, ForeignRow(total_nodes), 2, Outside, 0, 2) : id \in {0 - 1, total_nodes}}

\* A datagram for router r that is no advertisement: json.loads or the lookups
\* of lines 81, 82 raise.
Malformed(r) == {[to |-> r, from |-> Outside, hops |-> 0, ttl0 |-> 0]}

\* Advertisements for router r of the right form, about any router of the
\* network (r itself too), with a row that router never built and a ttl that
\* allows one relay or none.
Stale(r) ==
    {Datagram(r, o, ForeignRow(total_nodes), ttl, Outside, 0, ttl) :
        o \in Routers, ttl \in {1, 2}}

FromOutside ==
    UNION {Expired(r) \cup WrongLength(r) \cup OutOfRange(r) \cup Malformed(r) \cup Stale(r) :
            r \in Routers}

\* A datagram from outside arrives at a router's port.
Inject(m) ==
    /\ injected < MaxInjected
    /\ m \notin net
    /\ Record("inject", m.to, {})
    /\ net' = net \cup {m}
    /\ injected' = injected + 1
    /\ UNCHANGED <<config, store, engine, threads, lost, control>>

----------------------------------------------------------------------------
(* Spec: a closed network.  Every router runs its three threads, and the   *)
(* only datagrams are the ones the routers send; the network may lose,     *)
(* duplicate and reorder them.                                             *)

Configs == {Line3, Pair2}

Init == \E c \in Configs : Setup(c, 0 .. c.total_nodes - 1, TRUE)

Next ==
    \/ \E r \in Routers : Originate(r)
    \/ \E r \in Routers : \E m \in net : \E keep \in BOOLEAN : Receive(r, m, keep)
    \/ \E r \in Routers : Tick(r)
    \/ \E m \in net : Lose(m)

Spec == Init /\ [][Next]_vars

----------------------------------------------------------------------------
(* Scheduling.  The three threads of a router run forever and none starves: *)
(* the broadcast thread sends once per BROADCAST_INTERVAL, the path engine  *)
(* ticks once per DIJKSTRA_INTERVAL, and the receive loop takes the         *)
(* datagrams of its socket one after the other, so a datagram that stays    *)
(* in flight is delivered.  In a static network a datagram is determined by *)
(* its receiver, its sender and its origin.                                 *)

\* The receive loop of r takes the datagram that f sent it about origin o.
Deliver(r, f, o) ==
    /\ r \in Routers
    /\ \E m \in net : m.from = f /\ m.router_id = o /\ Receive(r, m, FALSE)

\* A tick of the path engine of r, for any id r.
Ticking(r) == r \in Routers /\ Tick(r)

\* The scheduling of the routers with the ids in ids, each one originating.
Fairness(ids) ==
    /\ \A r \in ids : WF_vars(Originate(r)) /\ WF_vars(Ticking(r))
    /\ \A r \in ids : \A f \in ids : \A o \in ids : WF_vars(Deliver(r, f, o))

\* The router ids of the longest line.
LineIds == 0 .. TTL_LIMIT + 1

----------------------------------------------------------------------------
(* FloodSpec: the flood of one router's row in a network that delivers      *)
(* every datagram once, in any order.  The flood of                         *)
(* origin o reads and writes only row o of every store, o's membership in   *)
(* the known sets and the datagrams that carry o's row, so the floods of    *)
(* different origins do not act on each other; the specification follows    *)
(* the broadcast thread of one router, any router of the network, and the   *)
(* receive loops and path engines of all routers.                           *)

FloodConfigs == {Line3, Ring4, Line(TTL_LIMIT + 1, 1), Line(TTL_LIMIT + 2, 1)}

\* The origins followed: every router of the line of three, router 0 of the ring
\* (whose routers are all alike), and in the long lines router 0, the end of
\* the line, whose row has the farthest to go.
FloodOrigins(c) == IF c = Line3 THEN 0 .. c.total_nodes - 1 ELSE {0}

FloodInit ==
    \E c \in FloodConfigs : \E o \in FloodOrigins(c) : Setup(c, {o}, FALSE)

FloodNext ==
    \/ \E r \in Routers : Originate(r)
    \/ \E r \in Routers : \E m \in net : Receive(r, m, FALSE)
    \/ \E r \in Routers : Tick(r)

FloodFairness ==
    /\ \A r \in LineIds : WF_vars(Originate(r)) /\ WF_vars(Ticking(r))
    /\ \A r \in LineIds : \A f \in LineIds : WF_vars(\E o \in Routers : Deliver(r, f, o))

FloodSpec == FloodInit /\ [][FloodNext]_vars /\ FloodFairness

----------------------------------------------------------------------------
(* FairSpec: the closed network without loss, its threads scheduled as     *)
(* above.  Isolated4 is the spec's scenario of a router with no link.      *)

FairConfigs == {Line3, Isolated4}

FairInit == \E c \in FairConfigs : Setup(c, 0 .. c.total_nodes - 1, FALSE)

FairNext ==
    \/ \E r \in Routers : Originate(r)
    \/ \E r \in Routers : \E m \in net : Receive(r, m, FALSE)
    \/ \E r \in Routers : Tick(r)

FairSpec == FairInit /\ [][FairNext]_vars /\ Fairness(0 .. Isolated4.total_nodes - 1)

----------------------------------------------------------------------------
(* LossSpec: the closed network on the line of three, in which the network *)
(* drops at most MaxLost datagrams in a run.                               *)

LossInit == Setup(Line3, 0 .. Line3.total_nodes - 1, FALSE)

LossNext ==
    \/ \E r \in Routers : Originate(r)
    \/ \E r \in Routers : \E m \in net : Receive(r, m, FALSE)
    \/ \E r \in Routers : Tick(r)
    \/ \E m \in net : LoseCounted(m)

LossSpec == LossInit /\ [][LossNext]_vars /\ Fairness(0 .. Line3.total_nodes - 1)

----------------------------------------------------------------------------
(* OpenSpec: at most MaxInjected datagrams from outside in a run, on two     *)
(* routers and one link, and on the line of three, where no broadcast       *)
(* thread is followed: its only traffic is what the datagrams from outside  *)
(* set off.                                                                 *)

OpenInit ==
    \/ Setup(Pair2, 0 .. Pair2.total_nodes - 1, TRUE)
    \/ Setup(Line3, {}, TRUE)

OpenNext ==
    \/ \E r \in Routers : Originate(r)
    \/ \E r \in Routers : \E m \in net : Receive(r, m, FALSE)
    \/ \E r \in Routers : Tick(r)
    \/ \E m \in FromOutside : Inject(m)

OpenSpec == OpenInit /\ [][OpenNext]_vars

----------------------------------------------------------------------------
(* LockSpec: the three threads of every router step by step, on two routers *)
(* and one link.  `with self.lock` is an acquire that waits until the lock  *)
(* is free and a release at the end of the block, also when the block ends  *)
(* by an exception.  The sections outside the lock are lines 60-65 (the     *)
(* broadcast thread builds its message from its own row), lines 76-86 (the  *)
(* receive thread takes a datagram and tests its ttl) and line 109.         *)

\* A faulty variant of LockFree: the thread enters without the lock.
LockIgnored(r) == TRUE

\* threading.Lock: the lock of router r can be acquired.
LockFree(r) == lock[r] = "free"

\* Thread t of router r moves to position to.
Goto(r, t, to) == pc' = [pc EXCEPT ![r][t] = to]

\* line 66: the broadcast thread enters its send section.
BroadcastAcquire(r) ==
    /\ r \in originators
    /\ pc[r].broadcast = "idle"
    /\ LockFree(r)
    /\ lock' = [lock EXCEPT ![r] = "broadcast"]
    /\ Goto(r, "broadcast", "send")
    /\ UNCHANGED <<config, store, engine, threads, budget, net, sent, last, message>>

\* lines 67-70: it sends its row to every neighbour and leaves the section.
BroadcastSend(r) ==
    /\ pc[r].broadcast = "send"
    /\ net' = net \cup OriginatedTo(r)
    /\ lock' = [lock EXCEPT ![r] = "free"]
    /\ Goto(r, "broadcast", "idle")
    /\ UNCHANGED <<config, store, engine, threads, budget, sent, last, message>>

\* lines 76-86: the receive thread takes datagram m, and waits for the lock if
\* the ttl is positive.
ReceiveTake(r, m) ==
    /\ recv_alive[r]
    /\ pc[r].receive = "recvfrom"
    /\ m \in net /\ m.to = r
    /\ net' = net \ {m}
    /\ recv_alive' = [recv_alive EXCEPT ![r] = WellFormed(m)]
    /\ message' = [message EXCEPT ![r] = IF WellFormed(m) /\ Live(m) THEN m ELSE <<>>]
    /\ Goto(r, "receive", IF WellFormed(m) /\ Live(m) THEN "wait" ELSE "recvfrom")
    /\ UNCHANGED <<config, store, engine, dijk_alive, budget, sent, last, lock>>

\* line 88: it enters its check-store-relay section.
ReceiveAcquire(r) ==
    /\ pc[r].receive = "wait"
    /\ LockFree(r)
    /\ lock' = [lock EXCEPT ![r] = "receive"]
    /\ Goto(r, "receive", "known")
    /\ UNCHANGED <<config, store, engine, threads, budget, net, sent, last, message>>

\* lines 89-90: it adds the origin to the known set.
ReceiveKnown(r) ==
    /\ pc[r].receive = "known"
    /\ received_link_states' =
           [received_link_states EXCEPT ![r] = KnownAfter(r, message[r])]
    /\ Goto(r, "receive", "compare")
    /\ UNCHANGED <<config, link_state, engine, threads, budget, net, sent, last,
                   lock, message>>

\* lines 92-95: it compares and stores the row; it goes on to relay, or leaves
\* the section (by the end of the block or by an IndexError).
ReceiveStore(r) ==
    /\ pc[r].receive = "compare"
    /\ link_state' = [link_state EXCEPT ![r] = RowsAfter(r, message[r])]
    /\ recv_alive' = [recv_alive EXCEPT ![r] = InRange(message[r].router_id)]
    /\ IF Differs(r, message[r]) /\ MayRelay(message[r])
       THEN /\ Goto(r, "receive", "relay")
            /\ UNCHANGED <<lock, message>>
       ELSE /\ Goto(r, "receive", "recvfrom")
            /\ lock' = [lock EXCEPT ![r] = "free"]
            /\ message' = [message EXCEPT ![r] = <<>>]
    /\ UNCHANGED <<config, received_link_states, engine, dijk_alive, budget, net,
                   sent, last>>

\* lines 96-105: it sends the copies and leaves the section.
ReceiveRelay(r) ==
    /\ pc[r].receive = "relay"
    /\ net' = net \cup Copies(r, message[r])
    /\ lock' = [lock EXCEPT ![r] = "free"]
    /\ message' = [message EXCEPT ![r] = <<>>]
    /\ Goto(r, "receive", "recvfrom")
    /\ UNCHANGED <<config, store, engine, threads, budget, sent, last>>

\* lines 109-110: the path engine wakes up and enters its section.
DijkstraAcquire(r) ==
    /\ dijk_alive[r]
    /\ pc[r].dijkstra = "sleep"
    /\ LockFree(r)
    /\ lock' = [lock EXCEPT ![r] = "dijkstra"]
    /\ Goto(r, "dijkstra", "gate")
    /\ UNCHANGED <<config, store, engine, threads, budget, net, sent, last, message>>

\* lines 111-113: the completeness gate.
DijkstraGate(r) ==
    /\ pc[r].dijkstra = "gate"
    /\ Goto(r, "dijkstra", IF Deferred(r) THEN "sleep" ELSE "compute")
    /\ lock' = [lock EXCEPT ![r] = IF Deferred(r) THEN "free" ELSE "dijkstra"]
    /\ UNCHANGED <<config, store, engine, threads, budget, net, sent, last, message>>

\* lines 116-139: the Dijkstra run over the store; an IndexError ends the thread.
DijkstraCompute(r) ==
    /\ pc[r].dijkstra = "compute"
    /\ \E run \in {Dijkstra(link_state[r], total_nodes, r)} :
        /\ dist' = [dist EXCEPT ![r] = IF run.ok THEN run.dist ELSE dist[r]]
        /\ prev' = [prev EXCEPT ![r] = IF run.ok THEN run.prev ELSE prev[r]]
        /\ dijk_alive' = [dijk_alive EXCEPT ![r] = run.ok]
        /\ lock' = [lock EXCEPT ![r] = IF run.ok THEN "dijkstra" ELSE "free"]
        /\ Goto(r, "dijkstra", IF run.ok THEN "build" ELSE "sleep")
    /\ UNCHANGED <<config, store, forwarding_table, recv_alive, budget, net, sent,
                   last, message>>

\* lines 142-171: the forwarding table is built and the section left.
DijkstraBuild(r) ==
    /\ pc[r].dijkstra = "build"
    /\ forwarding_table' =
           [forwarding_table EXCEPT ![r] = BuildTable(prev[r], total_nodes, r)]
    /\ lock' = [lock EXCEPT ![r] = "free"]
    /\ Goto(r, "dijkstra", "sleep")
    /\ UNCHANGED <<config, store, dist, prev, threads, budget, net, sent, last, message>>

LockInit == Setup(Pair2, 0 .. Pair2.total_nodes - 1, FALSE)

LockNext ==
    \/ \E r \in Routers : BroadcastAcquire(r)
    \/ \E r \in Routers : BroadcastSend(r)
    \/ \E r \in Routers : \E m \in net : ReceiveTake(r, m)
    \/ \E r \in Routers : ReceiveAcquire(r)
    \/ \E r \in Routers : ReceiveKnown(r)
    \/ \E r \in Routers : ReceiveStore(r)
    \/ \E r \in Routers : ReceiveRelay(r)
    \/ \E r \in Routers : DijkstraAcquire(r)
    \/ \E r \in Routers : DijkstraGate(r)
    \/ \E r \in Routers : DijkstraCompute(r)
    \/ \E r \in Routers : DijkstraBuild(r)

LockSpec == LockInit /\ [][LockNext]_vars

----------------------------------------------------------------------------
(* MatrixSpec: the path engine on a complete store.  Every router of the    *)
(* network has received a row of every other router; the rows are any costs *)
(* the routers may have been configured with: free links, cheap links,      *)
(* links so expensive that two of them add up to more than INFINITY, and no *)
(* link.  A router's own entry in its own row is 0 (line 51).  The ring of  *)
(* four with unit costs is the ring of the spec's scenario.                 *)

Costs == {0, 1, 500, INFINITY}

\* The cost matrices of n routers.
Matrices(n) ==
    {m \in [0 .. n - 1 -> [1 .. n -> Costs]] : \A r \in 0 .. n - 1 : m[r][r + 1] = 0}

\* The neighbours that row r of matrix m was configured from.
NeighborsOf(m, n, r) ==
    [j \in {j \in (0 .. n - 1) \ {r} : m[r][j + 1] < INFINITY} |-> m[r][j + 1]]

\* Every router of a network of n routers holds the rows of matrix m.
Loaded(n, m) ==
    /\ total_nodes = n
    /\ neighbors = [r \in 0 .. n - 1 |-> NeighborsOf(m, n, r)]
    /\ originators = {}
    /\ tracing = FALSE
    /\ link_state = [r \in 0 .. n - 1 |-> m]
    /\ received_link_states = [r \in 0 .. n - 1 |-> 0 .. n - 1]
    /\ forwarding_table = [r \in 0 .. n - 1 |-> <<>>]
    /\ dist = [r \in 0 .. n - 1 |-> <<>>]
    /\ prev = [r \in 0 .. n - 1 |-> <<>>]
    /\ recv_alive = [r \in 0 .. n - 1 |-> TRUE]
    /\ dijk_alive = [r \in 0 .. n - 1 |-> TRUE]
    /\ net = {}
    /\ sent = {}
    /\ last = [op |-> "start", r |-> None]
    /\ lost = 0
    /\ injected = 0
    /\ pc = [r \in 0 .. n - 1 |->
                [broadcast |-> "idle", receive |-> "recvfrom", dijkstra |-> "sleep"]]
    /\ lock = [r \in 0 .. n - 1 |-> "free"]
    /\ message = [r \in 0 .. n - 1 |-> <<>>]

MatrixInit ==
    \/ \E m \in Matrices(MatrixNodes) : Loaded(MatrixNodes, m)
    \/ Loaded(Ring4.total_nodes,
              [o \in 0 .. Ring4.total_nodes - 1 |->
                  OwnRow(Ring4.total_nodes, Ring4.neighbors[o], o)])

MatrixNext == \E r \in Routers : Tick(r)

MatrixSpec == MatrixInit /\ [][MatrixNext]_vars

----------------------------------------------------------------------------
(* Properties of the closed network.                                       *)

\* The step is a tick of router r (a tick of r names r in last').
TickStep(r) == last'.r = r /\ Tick(r)

\* The step is router r's receive loop taking datagram m.
ReceiveStep(r, m, keep) == last'.r = r /\ Receive(r, m, keep)

\* The result of a path computation of router r over the ground truth.
TrueRun(r) == Dijkstra(Truth, total_nodes, r)

\* C3 (completeness gating): a tick of the path engine that fires while
\* |known| < total_nodes computes nothing and leaves the forwarding table (and
\* the last distances and predecessors) unchanged, and a router's forwarding
\* table is only ever changed by a tick of that router that observed
\* |known| = total_nodes.
C3_CompletenessGating ==
    [][\A r \in Routers :
        /\ (Cardinality(received_link_states[r]) < total_nodes /\ TickStep(r))
              => (UNCHANGED <<forwarding_table, dist, prev>> /\ last'.op = "tick_defer")
        /\ (forwarding_table'[r] # forwarding_table[r])
              => (Cardinality(received_link_states[r]) = total_nodes /\ TickStep(r))]_vars

\* C3's case: router r has just deferred with a partly filled known set, while
\* another router's tick has already written its forwarding table.
C3_Witness ==
    \E r, q \in Routers :
        /\ last = [op |-> "tick_defer", r |-> r]
        /\ Cardinality(received_link_states[r]) > 1
        /\ Cardinality(received_link_states[r]) < total_nodes
        /\ forwarding_table[r] = <<>>
        /\ forwarding_table[q] # <<>>

\* C4 as amended: for every order in which the rows arrive, every tick that
\* finds the known set incomplete is deferred and leaves the thread running,
\* and every tick that finds it complete (the first and each later one) does a
\* full Dijkstra run and table build whose result is the one of the ground
\* truth, whatever the arrival order was.
C4_EveryCompleteTickComputes ==
    [][\A r \in Routers :
        TickStep(r) =>
            /\ dijk_alive'[r]
            /\ IF Cardinality(received_link_states[r]) = total_nodes
               THEN /\ last' = [op |-> "tick_run", r |-> r]
                    /\ dist'[r] = TrueRun(r).dist
                    /\ prev'[r] = TrueRun(r).prev
                    /\ forwarding_table'[r] = BuildTable(TrueRun(r).prev, total_nodes, r)
               ELSE /\ last' = [op |-> "tick_defer", r |-> r]
                    /\ UNCHANGED <<forwarding_table, dist, prev>>]_vars

\* C4's case: router r, which already holds a forwarding table, has just run
\* the computation.
C4_Witness ==
    \E r \in Routers :
        /\ last = [op |-> "tick_run", r |-> r]
        /\ received_link_states[r] = Routers
        /\ total_nodes > 2
        /\ forwarding_table[r] = BuildTable(TrueRun(r).prev, total_nodes, r)

\* C4 as claimed: exactly one complete computation occurs: a router that has
\* computed once never computes again.
C4_ExactlyOneComputation ==
    [][\A r \in Routers :
        dist[r] # <<>> => ~(last'.op = "tick_run" /\ TickStep(r))]_vars

\* C9 (flood idempotence): delivering an advertisement with ttl > 0 whose row
\* equals the stored row of its origin sends nothing and leaves store and known
\* set as they were; and after any delivery, delivering the same advertisement
\* again would send nothing and change neither store nor known set.
C9_FloodIdempotence ==
    [][\A r \in Routers : \A m \in net : \A keep \in BOOLEAN :
        (TtlOf(m) > 0 /\ ReceiveStep(r, m, keep)) =>
            /\ (link_state[r][m.router_id] = m.link_state)
                  => (sent' = {} /\ UNCHANGED <<link_state, received_link_states>>)
            /\ (RowsAfter(r, m))' = link_state'[r]
            /\ (KnownAfter(r, m))' = received_link_states'[r]
            /\ (Relayed(r, m))' = {}]_vars

\* C9's case: a router has just been delivered an advertisement whose row it
\* had stored already.
C9_Witness ==
    \E r \in Routers :
        /\ last = [op |-> "receive_same", r |-> r]
        /\ Cardinality(received_link_states[r]) > 1

\* C10 (self-row immutability): every router's own row is the one built at
\* startup, and no datagram in flight is addressed to the router it names as
\* its origin.
C10_SelfRowImmutable ==
    /\ \A r \in Routers : link_state[r][r] = OwnRow(total_nodes, neighbors[r], r)
    /\ \A m \in net : m.to # m.router_id

\* C10's case: an advertisement has been relayed twice, so copies of it have
\* travelled back towards its origin.
C10_Witness ==
    \E m \in net : m.hops >= 2 /\ m.to \in DOMAIN neighbors[m.router_id]

----------------------------------------------------------------------------
(* Properties of the flood.                                                *)

\* Every router stores, for every origin whose flood is followed, the row of
\* the ground truth, and has the origin in its known set.
Converged ==
    \A r \in Routers : \A o \in originators :
        link_state[r][o] = Truth[o] /\ o \in received_link_states[r]

\* C1 as claimed (convergence): in every connected static topology every
\* router's store eventually holds the ground-truth row of every origin, and
\* from then on never changes.
C1_Convergence == <>[]Converged

\* C1 as amended: the same in every connected static topology of at most
\* TTL_LIMIT + 1 routers.
C1_ConvergenceWithinTtl == (total_nodes <= TTL_LIMIT + 1) => <>[]Converged

\* C1's case: the line of TTL_LIMIT + 1 routers has converged: the row of router
\* 0 has reached the far end, TTL_LIMIT hops away.
C1_Witness ==
    /\ total_nodes = TTL_LIMIT + 1
    /\ Converged
    /\ \E o \in originators : link_state[total_nodes - 1 - o][o] = Truth[o]

\* C8 (TTL boundedness): every copy of an advertisement in flight has a ttl of
\* at least 1 that is the ttl it was originated with less one for every relay
\* behind it (so every relayed copy carries one less than the copy that
\* triggered it), and it has been relayed fewer times than the ttl it was
\* originated with.
C8_TtlBounded ==
    \A m \in net :
        /\ m.ttl = m.ttl0 - m.hops
        /\ m.ttl >= 1
        /\ m.hops < m.ttl0
        /\ m.hops = 0 => m.from = m.router_id

\* C8's case: on the line of TTL_LIMIT + 2 routers the row of router 0 has been
\* stored by router TTL_LIMIT, which got the copy of ttl 1 and relayed nothing:
\* the flood has died out and the last router has not got the row.
C8_Witness ==
    /\ total_nodes = TTL_LIMIT + 2
    /\ link_state[TTL_LIMIT][0] = Truth[0]
    /\ link_state[TTL_LIMIT + 1][0] # Truth[0]
    /\ net = {}

----------------------------------------------------------------------------
(* Properties of the fair runs of the closed network.                      *)

\* Router r has every row of the ground truth and a complete known set.
Complete(r) ==
    /\ received_link_states[r] = Routers
    /\ \A o \in Routers : link_state[r][o] = Truth[o]

\* C2 as claimed (loss is compensated by re-origination): when the network
\* drops only finitely many datagrams and every router keeps originating, every
\* router eventually has every origin's row and a complete known set.
C2_LossCompensated == <>(\A r \in Routers : Complete(r))

\* C6 as claimed (disconnected node): with router 3 linked to nobody and
\* routers 0, 1, 2 connected, each of 0, 1, 2 eventually has a path computation
\* with dist[3] = INFINITY and the unreachable marker as the entry for 3.
C6_IsolatedUnreachable ==
    (neighbors = Isolated4.neighbors) =>
        \A r \in {0, 1, 2} :
            <>(/\ total_nodes = Isolated4.total_nodes
               /\ dist[r] # <<>>
               /\ dist[r][3] = INFINITY
               /\ forwarding_table[r][3] = None)

----------------------------------------------------------------------------
(* Properties of the network with datagrams from outside.                  *)

\* C7 (TTL discard): the receive loop taking a datagram with ttl <= 0 or with
\* no ttl field adds nothing to the known set, changes no stored row and sends
\* no datagram.
C7_TtlDiscard ==
    [][\A r \in Routers : \A m \in net :
        (TtlOf(m) <= 0 /\ ReceiveStep(r, m, FALSE)) =>
            /\ UNCHANGED <<link_state, received_link_states>>
            /\ sent' = {}
            /\ net' = net \ {m}]_vars

\* C7's case: router r has just taken an expired advertisement about the other
\* router, with a row it has not stored, and still knows nobody but itself.
C7_Witness ==
    \E r \in Routers :
        /\ last = [op |-> "receive_ttl", r |-> r]
        /\ received_link_states[r] = {r}
        /\ link_state[r] = InitialStore(total_nodes, neighbors[r], r)

\* C16 (receive-and-relay step): the receive loop of r taking an advertisement
\* (o, row, ttl) with ttl > 0, o a router id and row different from the row
\* stored for o adds o to the known set, stores row for o, leaves every other
\* stored row (and every other router's store) unchanged, and sends exactly one
\* datagram (o, row, ttl - 1) to each direct neighbour other than o if
\* ttl - 1 > 0, and nothing otherwise.
C16_ReceiveAndRelay ==
    [][\A r \in Routers : \A m \in net :
        (/\ WellFormed(m) /\ TtlOf(m) > 0 /\ m.router_id \in Routers
         /\ link_state[r][m.router_id] # m.link_state
         /\ ReceiveStep(r, m, FALSE)) =>
            /\ received_link_states'[r] = received_link_states[r] \cup {m.router_id}
            /\ link_state'[r][m.router_id] = m.link_state
            /\ \A o \in Routers \ {m.router_id} : link_state'[r][o] = link_state[r][o]
            /\ \A q \in Routers \ {r} :
                  /\ link_state'[q] = link_state[q]
                  /\ received_link_states'[q] = received_link_states[q]
            /\ IF m.ttl - 1 > 0
               THEN /\ \A j \in DOMAIN neighbors[r] \ {m.router_id} :
                         \E c \in sent' :
                             /\ c.to = j /\ c.router_id = m.router_id
                             /\ c.link_state = m.link_state /\ c.ttl = m.ttl - 1
                    /\ Cardinality(sent') = Cardinality(DOMAIN neighbors[r] \ {m.router_id})
               ELSE sent' = {}
            /\ net' = (net \ {m}) \cup sent']_vars

\* C16's case: on the line of three router 1 has stored a new row for router 0
\* and relayed it, and router 2 has just stored the copy, whose ttl of 1 allows
\* no further relay, and has sent nothing.
C16_Witness ==
    /\ total_nodes = Line3.total_nodes
    /\ last = [op |-> "receive_new", r |-> 2]
    /\ sent = {}
    /\ link_state[1][0] = ForeignRow(total_nodes)
    /\ link_state[2][0] = ForeignRow(total_nodes)
    /\ 0 \in received_link_states[2]

\* The datagram is one of C5's anomalies: it is structurally invalid, its row
\* length differs from total_nodes, or its origin id lies outside 0 .. total_nodes-1.
Anomalous(m) ==
    \/ ~WellFormed(m)
    \/ Len(m.link_state) # total_nodes
    \/ m.router_id \notin Routers

\* C5 as claimed (anomalies are discarded without damage): the receive loop
\* taking an anomalous datagram leaves store and known set unchanged, sends
\* nothing and stays alive, and no tick of the path engine ends its thread.
C5_AnomaliesDiscarded ==
    [][\A r \in Routers :
        /\ \A m \in net :
              (Anomalous(m) /\ ReceiveStep(r, m, FALSE)) =>
                  /\ UNCHANGED <<link_state, received_link_states>>
                  /\ sent' = {}
                  /\ recv_alive'[r]
        /\ TickStep(r) => dijk_alive'[r]]_vars

\* The row of INFINITY entries a store holds for a router it has not heard of.
Blank == [v \in 1 .. total_nodes |-> INFINITY]

\* C15 (controlled flood): a row a router has stored is never replaced; a step
\* in which router r stores and relays an advertisement is the first and only
\* one for its origin o (r held the blank row for o before and holds o's row
\* after, and everything the step sends is r's copy of that advertisement);
\* nothing is sent but by an origination or by such a step; and once every
\* router has stored the row of o, every datagram sent about o is o's own
\* advertisement to one of its direct neighbours.
C15_ControlledFlood ==
    [][/\ \A r, o \in Routers :
            /\ link_state[r][o] # Blank => link_state'[r][o] = link_state[r][o]
            /\ (\A q \in Routers : link_state[q][o] = Truth[o]) =>
                  \A m \in sent' :
                      m.router_id = o =>
                          /\ last' = [op |-> "originate", r |-> o]
                          /\ m.from = o /\ m.hops = 0 /\ m.to \in DOMAIN neighbors[o]
       /\ \A r \in Routers :
            last' = [op |-> "receive_new", r |-> r] =>
                \E o \in Routers \ {r} :
                    /\ link_state[r][o] = Blank
                    /\ link_state'[r][o] = Truth[o]
                    /\ \A m \in sent' : m.router_id = o /\ m.from = r /\ m.hops > 0
       /\ sent' # {} => last'.op \in {"originate", "receive_new"}]_vars

\* C15's case: on the line of three every router has stored every row, copies
\* relayed by router 1 are still in flight, and router 1 has just been
\* delivered an advertisement once more and has sent nothing.
C15_Witness ==
    /\ total_nodes = Line3.total_nodes
    /\ \A r, o \in Routers : link_state[r][o] = Truth[o]
    /\ \E m \in net : m.from = 1 /\ m.hops > 0
    /\ last = [op |-> "receive_same", r |-> 1]
    /\ sent = {}

\* C20 (implicit invariant): in the closed network, where every router
\* originates only its own configured row, every row that router r stores for an
\* id j of its known set is router j's own configured row; so a router whose
\* known set lets the completeness gate pass holds exactly the ground-truth cost
\* matrix, and the distances a computation leaves are those of the ground truth.
C20_StoredRowsAreTruth ==
    \A r \in Routers :
        /\ \A j \in received_link_states[r] : link_state[r][j] = Truth[j]
        /\ ~Deferred(r) => link_state[r] = Truth
        /\ last = [op |-> "tick_run", r |-> r] => dist[r] = TrueRun(r).dist

\* C20's case: router 2 of the line, two hops from router 0, holds every row,
\* the row of router 0 through the relay of router 1, and has just computed.
C20_Witness ==
    /\ total_nodes = Line3.total_nodes
    /\ received_link_states[2] = Routers
    /\ link_state[2][0] = <<0, 5, INFINITY>>
    /\ last = [op |-> "tick_run", r |-> 2]

\* C17 as claimed (no immediate echo): no copy that a router relays goes to the
\* neighbour that delivered the advertisement to it, whether that neighbour is
\* the origin or a relaying router.
C17_NoImmediateEcho ==
    [][\A r \in Routers : \A m \in net : \A keep \in BOOLEAN :
        ReceiveStep(r, m, keep) => \A c \in sent' : c.to # m.from]_vars

\* Router r has had a row set for id j: its own at startup, another one by an
\* advertisement that replaced the row of INFINITY entries.
RowSet(r, j) == j = r \/ link_state[r][j] # [v \in 1 .. total_nodes |-> INFINITY]

\* C12 as claimed (known-set invariant): the known set of every router is a
\* subset of 0 .. total_nodes - 1, so it has at most total_nodes members, and the
\* completeness gate passes if and only if every id has had a row set.
C12_KnownSetInvariant ==
    \A r \in Routers :
        /\ received_link_states[r] \subseteq Routers
        /\ Cardinality(received_link_states[r]) <= total_nodes
        /\ ~Deferred(r) <=> \A j \in Routers : RowSet(r, j)

----------------------------------------------------------------------------
(* Properties of the threads.                                              *)

\* The positions of thread t that lie inside `with self.lock`.
Guarded(t) ==
    IF t = "broadcast" THEN {"send"}
    ELSE IF t = "receive" THEN {"known", "compare", "relay"}
    ELSE {"gate", "compute", "build"}

\* Thread t of router r is inside the guard.
InGuard(r, t) == pc[r][t] \in Guarded(t)

\* At most one thread of router r is inside the guard, and it holds the lock.
Exclusive(r) ==
    \A t, u \in {"broadcast", "receive", "dijkstra"} :
        InGuard(r, t) => lock[r] = t /\ (InGuard(r, u) => u = t)

\* C11 (mutual exclusion and consistent snapshot): no two threads of a router
\* are inside the guard together; no step taken while the path engine is inside
\* the guard (from its completeness check to the completion of its table)
\* changes the router's store or known set; and the path engine is never inside
\* the guard while the receive thread stands between its known-set update and
\* its row update.
C11_MutualExclusion ==
    [][\A r \in Routers :
        /\ Exclusive(r) /\ Exclusive(r)'
        /\ InGuard(r, "dijkstra") =>
              /\ link_state'[r] = link_state[r]
              /\ received_link_states'[r] = received_link_states[r]
              /\ pc[r].receive # "compare"]_vars

\* C11's case: the path engine of r is at its completeness check while r's
\* receive thread waits for the lock with an advertisement that will change the
\* store, and the other router's broadcast thread is inside its own guard.
C11_Witness ==
    \E r, q \in Routers :
        /\ pc[r].dijkstra = "gate"
        /\ pc[r].receive = "wait"
        /\ Differs(r, message[r])
        /\ q # r /\ pc[q].broadcast = "send"

----------------------------------------------------------------------------
(* Properties of the path engine on a complete store.                      *)

\* C13 (self-distance invariant): every path computation of router r has left
\* dist[r] = 0 and prev[r] unset, and a forwarding table with an entry for every
\* destination but r and none for r.
C13_SelfDistance ==
    \A r \in Routers :
        dist[r] # <<>> =>
            /\ dist[r][r] = 0
            /\ prev[r][r] = None
            /\ DOMAIN forwarding_table[r] = Routers \ {r}

\* C13's case: every router has computed, on a store in which a free link
\* leads back to the router that computes and another one away from it.
C13_Witness ==
    /\ \A r \in Routers : dist[r] # <<>>
    /\ \E r, j \in Routers : j # r /\ link_state[r][j][r + 1] = 0 /\ link_state[r][r][j + 1] = 0

\* The state of the run of router self over rows after k rounds of the main loop.
RECURSIVE AfterRounds(_, _, _, _)
AfterRounds(rows, n, self, k) ==
    IF k = 0
    THEN [dist |-> [v \in 0 .. n - 1 |-> IF v = self THEN 0 ELSE INFINITY],
          prev |-> [v \in 0 .. n - 1 |-> None],
          visited |-> [v \in 0 .. n - 1 |-> FALSE],
          ok |-> TRUE]
    ELSE CHOOSE result \in
            {IF u = None THEN st
             ELSE Relax(rows, n, u, 0, [st EXCEPT !.visited[u] = TRUE]) :
                st \in {AfterRounds(rows, n, self, k - 1)},
                u \in {SelectMin(n, AfterRounds(rows, n, self, k - 1).dist,
                                 AfterRounds(rows, n, self, k - 1).visited,
                                 0, INFINITY, None)}} : TRUE

\* The nodes a selection step may choose from: unvisited, at a distance below
\* INFINITY.
Candidates(st) == {v \in DOMAIN st.dist : ~st.visited[v] /\ st.dist[v] < INFINITY}

\* u is the lowest id among the candidates of minimum distance, or None if
\* there is no candidate.
LowestOfNearest(st, u) ==
    IF Candidates(st) = {} THEN u = None
    ELSE /\ u \in Candidates(st)
         /\ \A v \in Candidates(st) :
               st.dist[u] <= st.dist[v] /\ (st.dist[v] = st.dist[u] => u <= v)

\* C14 (determinism under ties): in every selection step of every computation
\* the node chosen is the lowest id among the unvisited nodes of minimum
\* distance; the distances, predecessors and table a router holds after a
\* computation are the ones these selections lead to; and in the unit-cost ring
\* of four router 0 computes dist = [0, 1, 2, 1] and the next hops 1 for 1, 1 for
\* 2 and 3 for 3.
C14_LowestIdTieBreak ==
    \A r \in Routers :
        dist[r] # <<>> =>
            /\ \A k \in 0 .. total_nodes - 1 :
                  LowestOfNearest(AfterRounds(link_state[r], total_nodes, r, k),
                      SelectMin(total_nodes,
                                AfterRounds(link_state[r], total_nodes, r, k).dist,
                                AfterRounds(link_state[r], total_nodes, r, k).visited,
                                0, INFINITY, None))
            /\ dist[r] = AfterRounds(link_state[r], total_nodes, r, total_nodes).dist
            /\ prev[r] = AfterRounds(link_state[r], total_nodes, r, total_nodes).prev
            /\ forwarding_table[r] = BuildTable(prev[r], total_nodes, r)
            /\ (total_nodes = Ring4.total_nodes /\ r = 0) =>
                  /\ dist[r] = (0 :> 0 @@ 1 :> 1 @@ 2 :> 2 @@ 3 :> 1)
                  /\ forwarding_table[r] = (1 :> 1 @@ 2 :> 1 @@ 3 :> 3)

\* C14's case: router 0 of the ring has computed; routers 1 and 3 tie at
\* distance 1 and router 2 is reached through router 1.
C14_Witness ==
    /\ total_nodes = Ring4.total_nodes
    /\ dist[0] # <<>>
    /\ dist[0][1] = dist[0][3]
    /\ prev[0][2] = 1

\* The directed paths from self to d that visit no node twice, as sequences of
\* nodes.  (Costs are not negative, so a path that visits a node twice costs at
\* least as much as the path without the round trip.)
SimplePaths(n, self, d) ==
    {p \in UNION {[1 .. k -> 0 .. n - 1] : k \in 1 .. n} :
        /\ p[1] = self
        /\ p[Len(p)] = d
        /\ \A i, j \in 1 .. Len(p) : p[i] = p[j] => i = j}

\* Every edge of path p has a stored cost below INFINITY.
Usable(rows, p) == \A i \in 1 .. Len(p) - 1 : rows[p[i]][p[i + 1] + 1] < INFINITY

\* The total cost of the first k edges of path p.
RECURSIVE CostOf(_, _, _)
CostOf(rows, p, k) ==
    IF k = 0 THEN 0 ELSE CostOf(rows, p, k - 1) + rows[p[k]][p[k + 1] + 1]

\* The total costs of the usable paths from self to d.
PathCosts(rows, n, self, d) ==
    {CostOf(rows, p, Len(p) - 1) : p \in {q \in SimplePaths(n, self, d) : Usable(rows, q)}}

\* The reference distance: the least total cost if it is below INFINITY,
\* INFINITY otherwise.
Reference(rows, n, self, d) ==
    IF \E c \in PathCosts(rows, n, self, d) : c < INFINITY
    THEN CHOOSE c \in PathCosts(rows, n, self, d) :
            \A e \in PathCosts(rows, n, self, d) : c <= e
    ELSE INFINITY

\* C18 (Dijkstra result against a reference): on every complete store with
\* non-negative integer costs, the distance that a computation of router r holds
\* for destination d is the least total cost of a directed path from r to d over
\* edges of stored cost below INFINITY if that cost is below INFINITY, and
\* INFINITY otherwise; no distance exceeds INFINITY.
C18_DijkstraReference ==
    \A r \in Routers :
        dist[r] # <<>> =>
            \A d \in Routers :
                /\ dist[r][d] = Reference(link_state[r], total_nodes, r, d)
                /\ dist[r][d] <= INFINITY

\* C18's case: routers 0 and 2 have computed on a store where the only path
\* from 0 to 2 has two usable edges that add up to more than INFINITY, and
\* where the path from 2 to 0 through 1 is cheaper than the direct link.
C18_Witness ==
    /\ total_nodes = MatrixNodes
    /\ link_state[0] = (0 :> <<0, 500, INFINITY>> @@ 1 :> <<1, 0, 500>> @@ 2 :> <<500, 1, 0>>)
    /\ dist[0] # <<>> /\ dist[0][2] = INFINITY
    /\ dist[2] # <<>> /\ dist[2][0] = 2

\* The walk of lines 147-149 from next_hop stops within k passes of its loop.
RECURSIVE StopsWithin(_, _, _, _)
StopsWithin(p, self, next_hop, k) ==
    IF p[next_hop] # None /\ p[next_hop] # self
    THEN k > 0 /\ StopsWithin(p, self, p[next_hop], k - 1)
    ELSE TRUE

\* Node h is on the predecessor chain of d, at most k predecessors back.
RECURSIVE OnChain(_, _, _, _)
OnChain(p, d, h, k) ==
    \/ d = h
    \/ k > 0 /\ p[d] # None /\ OnChain(p, p[d], h, k - 1)

\* The cost of the stored edges of the predecessor chain from h down to d,
\* for h on the chain of d.
RECURSIVE ChainCost(_, _, _, _)
ChainCost(rows, p, h, d) ==
    IF d = h THEN 0 ELSE ChainCost(rows, p, h, p[d]) + rows[p[d]][d + 1]

\* C19 (forwarding-table construction): after every path computation of router
\* r and for every destination d other than r, the predecessor walk from d ends;
\* the entry for d is the unreachable marker exactly if dist[d] = INFINITY;
\* otherwise the entry is a node h on d's predecessor chain whose predecessor is
\* r, the cost from r to h in r's own row is below INFINITY, and dist[d] is
\* dist[h] plus the cost of the chain from h to d.
C19_TableConstruction ==
    \A r \in Routers :
        dist[r] # <<>> =>
            \A d \in Routers \ {r} :
                /\ StopsWithin(prev[r], r, d, total_nodes)
                /\ (forwarding_table[r][d] = None) <=> (dist[r][d] = INFINITY)
                /\ forwarding_table[r][d] # None =>
                      /\ forwarding_table[r][d] \in Routers
                      /\ prev[r][forwarding_table[r][d]] = r
                      /\ link_state[r][r][forwarding_table[r][d] + 1] < INFINITY
                      /\ OnChain(prev[r], d, forwarding_table[r][d], total_nodes)
                      /\ dist[r][d] = dist[r][forwarding_table[r][d]]
                            + ChainCost(link_state[r], prev[r], forwarding_table[r][d], d)

\* C19's case: router 0 reaches router 2 through router 1, so the walk from 2
\* passes a node that is not a neighbour's; router 2 has no link at all and
\* marks every destination unreachable.
C19_Witness ==
    /\ total_nodes = MatrixNodes
    /\ link_state[0] = (0 :> <<0, 1, INFINITY>> @@ 1 :> <<1, 0, 1>>
                          @@ 2 :> <<INFINITY, INFINITY, 0>>)
    /\ dist[0] # <<>> /\ prev[0][2] = 1 /\ forwarding_table[0] = (1 :> 1 @@ 2 :> 1)
    /\ dist[2] # <<>> /\ forwarding_table[2] = (0 :> None @@ 1 :> None)

====
